---------------------------- MODULE Spec2Model ----------------------------
(***************************************************************************)
(* Model of the shipment-tracking backend (sheets.js + server.js).         *)
(*                                                                         *)
(* Text is modelled character by character: a JavaScript string is a       *)
(* sequence of characters, a character is a one-token TLA+ string.  The    *)
(* token "nbsp" stands for U+00A0, "bs" for U+0008 and "ff" for U+000C.    *)
(* A JavaScript value is a record [k |-> kind, v |-> payload].             *)
(***************************************************************************)
EXTENDS Integers, Sequences, FiniteSets, TLC

VARIABLES
  sheet,      \* the grid of the tab the service works on; sheet[1] is the header row
  last,       \* the call being answered
  sheetName,  \* the cached title of the tab (let sheetName)
  titles,     \* the titles of the spreadsheet's tabs, in order
  flights     \* the requests that are being served, each at an await of its handler

vars == <<sheet, last, sheetName, titles, flights>>

-----------------------------------------------------------------------------
(* JavaScript values *)

Undef == [k |-> "undefined", v |-> <<>>]
Null == [k |-> "null", v |-> <<>>]
Bool(b) == [k |-> "bool", v |-> b]
Num(n) == [k |-> "num", v |-> n]
Str(s) == [k |-> "str", v |-> s]
Arr(a) == [k |-> "arr", v |-> a]
\* an object is the sequence of its own properties <<key, value>> in insertion order
Obj(m) == [k |-> "obj", v |-> m]

Min(S) == CHOOSE x \in S : \A y \in S : x <= y
Max(S) == CHOOSE x \in S : \A y \in S : x >= y

\* const name = value; ...: the value is computed once and the rest uses it
Bind(value, Rest(_)) == Rest(value)

RECURSIVE Concat(_)
Concat(ss) == IF ss = <<>> THEN <<>> ELSE Head(ss) \o Concat(Tail(ss))

-----------------------------------------------------------------------------
(* String.prototype methods *)

\* the characters String.prototype.trim removes (WhiteSpace and LineTerminator)
IsTrimSpace(c) == c \in {" ", "nbsp", "\t", "\n", "\r", "ff"}

\* the index of the first character at or after i that trim keeps
RECURSIVE TrimStart(_, _)
TrimStart(s, i) ==
  IF i <= Len(s) /\ IsTrimSpace(s[i]) THEN TrimStart(s, i + 1) ELSE i

\* the index of the last character at or before i that trim keeps
RECURSIVE TrimEnd(_, _)
TrimEnd(s, i) ==
  IF i >= 1 /\ IsTrimSpace(s[i]) THEN TrimEnd(s, i - 1) ELSE i

\* String.prototype.trim
trim(s) == SubSeq(s, TrimStart(s, 1), TrimEnd(s, Len(s)))

LowerLetters == <<"a","b","c","d","e","f","g","h","i","j","k","l","m",
                  "n","o","p","q","r","s","t","u","v","w","x","y","z">>
UpperLetters == <<"A","B","C","D","E","F","G","H","I","J","K","L","M",
                  "N","O","P","Q","R","S","T","U","V","W","X","Y","Z">>

\* the 1-based index of the first c in seq, 0 when there is none
IndexOf(seq, c) ==
  IF \E i \in 1..Len(seq) : seq[i] = c
    THEN CHOOSE i \in 1..Len(seq) : seq[i] = c /\ \A j \in 1..(i - 1) : seq[j] # c
    ELSE 0

\* String.prototype.toUpperCase
toUpperCase(s) ==
  [i \in 1..Len(s) |->
     Bind(IndexOf(LowerLetters, s[i]),
          LAMBDA at : IF at > 0 THEN UpperLetters[at] ELSE s[i])]

\* String.prototype.toLowerCase
toLowerCase(s) ==
  [i \in 1..Len(s) |->
     Bind(IndexOf(UpperLetters, s[i]),
          LAMBDA at : IF at > 0 THEN LowerLetters[at] ELSE s[i])]

\* s.startsWith(c) for a one-character c
startsWith(s, c) == Len(s) >= 1 /\ s[1] = c

Digit == <<"0","1","2","3","4","5","6","7","8","9">>

RECURSIVE NumberToString(_)
NumberToString(n) ==
  IF n < 10 THEN <<Digit[n + 1]>>
  ELSE NumberToString(n \div 10) \o <<Digit[(n % 10) + 1]>>

RECURSIVE Join(_, _)
Join(ss, sep) ==
  IF ss = <<>> THEN <<>>
  ELSE IF Len(ss) = 1 THEN ss[1]
  ELSE ss[1] \o sep \o Join(Tail(ss), sep)

\* String(value)
RECURSIVE String(_)
String(x) ==
  CASE x.k = "str" -> x.v
    [] x.k = "num" -> NumberToString(x.v)
    [] x.k = "bool" -> IF x.v THEN <<"t","r","u","e">> ELSE <<"f","a","l","s","e">>
    [] x.k = "null" -> <<"n","u","l","l">>
    [] x.k = "undefined" -> <<"u","n","d","e","f","i","n","e","d">>
    [] x.k = "arr" ->
         Join([i \in 1..Len(x.v) |->
                 IF x.v[i].k \in {"null", "undefined"} THEN <<>> ELSE String(x.v[i])],
              <<",">>)
    [] x.k = "obj" ->
         <<"[","o","b","j","e","c","t"," ","O","b","j","e","c","t","]">>

\* ToBoolean(value): what `!x` and `x || y` test
Truthy(x) ==
  CASE x.k \in {"undefined", "null"} -> FALSE
    [] x.k = "bool" -> x.v
    [] x.k = "num" -> x.v # 0
    [] x.k = "str" -> x.v # <<>>
    [] OTHER -> TRUE

-----------------------------------------------------------------------------
(* JSON.stringify *)

\* the characters JSON.stringify writes as an escape inside a string
QuoteChar(c) ==
  CASE c = "\"" -> <<"\\", "\"">>
    [] c = "\\" -> <<"\\", "\\">>
    [] c = "\n" -> <<"\\", "n">>
    [] c = "\t" -> <<"\\", "t">>
    [] c = "\r" -> <<"\\", "r">>
    [] c = "bs" -> <<"\\", "b">>
    [] c = "ff" -> <<"\\", "f">>
    [] OTHER -> <<c>>

\* QuoteJSONString
Quote(s) == <<"\"">> \o Concat([i \in 1..Len(s) |-> QuoteChar(s[i])]) \o <<"\"">>

\* the members of an object that JSON.stringify writes (undefined is skipped)
Written(m) == SelectSeq(m, LAMBDA p : p[2].k # "undefined")

RECURSIVE JSONstringify(_)
JSONstringify(x) ==
  CASE x.k = "str" -> Quote(x.v)
    [] x.k = "num" -> NumberToString(x.v)
    [] x.k = "bool" -> IF x.v THEN <<"t","r","u","e">> ELSE <<"f","a","l","s","e">>
    [] x.k = "null" -> <<"n","u","l","l">>
    [] x.k = "undefined" -> <<"n","u","l","l">>   \* only reached as an array element
    [] x.k = "arr" ->
         <<"[">> \o Join([i \in 1..Len(x.v) |-> JSONstringify(x.v[i])], <<",">>)
                 \o <<"]">>
    [] x.k = "obj" ->
         LET w == Written(x.v)
         IN <<"{">> \o Join([i \in 1..Len(w) |->
                              Quote(w[i][1]) \o <<":">> \o JSONstringify(w[i][2])],
                            <<",">>)
                    \o <<"}">>

\* a BigInt: a value JSON.stringify raises a TypeError on
BigInt(n) == [k |-> "bigint", v |-> n]

\* JSON.stringify(x) returns instead of raising: there is no BigInt inside x
RECURSIVE Serializable(_)
Serializable(x) ==
  CASE x.k = "bigint" -> FALSE
    [] x.k = "arr" -> \A i \in 1..Len(x.v) : Serializable(x.v[i])
    [] x.k = "obj" -> \A i \in 1..Len(x.v) : Serializable(x.v[i][2])
    [] OTHER -> TRUE

-----------------------------------------------------------------------------
(* JSON.parse: a recursive-descent parser of the JSON grammar.  A parse    *)
(* step returns [ok, val, pos]: whether it succeeded, the value read and   *)
(* the index of the first character after it.                              *)

ParseFail == [ok |-> FALSE, val |-> Null, pos |-> 0]
ParseOk(v, p) == [ok |-> TRUE, val |-> v, pos |-> p]

\* the index of the first character at or after i that is not JSON whitespace
RECURSIVE SkipWs(_, _)
SkipWs(s, i) ==
  IF i <= Len(s) /\ s[i] \in {" ", "\t", "\n", "\r"} THEN SkipWs(s, i + 1) ELSE i

At(s, i) == IF i >= 1 /\ i <= Len(s) THEN s[i] ELSE "eof"

IsLit(s, i, lit) == i + Len(lit) - 1 <= Len(s) /\ SubSeq(s, i, i + Len(lit) - 1) = lit

\* the character an escape \e stands for, or "bad"
Unescape(e) ==
  CASE e \in {"\"", "\\", "/"} -> e
    [] e = "n" -> "\n"
    [] e = "t" -> "\t"
    [] e = "r" -> "\r"
    [] e = "b" -> "bs"
    [] e = "f" -> "ff"
    [] OTHER -> "bad"

\* a string body; i is the index after the opening quote
RECURSIVE ParseString(_, _, _)
ParseString(s, i, acc) ==
  IF i > Len(s) THEN ParseFail
  ELSE IF s[i] = "\"" THEN ParseOk(Str(acc), i + 1)
  ELSE IF s[i] = "\\" THEN
    IF Unescape(At(s, i + 1)) = "bad" THEN ParseFail
    ELSE ParseString(s, i + 2, Append(acc, Unescape(At(s, i + 1))))
  ELSE IF s[i] \in {"\t", "\n", "\r", "bs", "ff"} THEN ParseFail
  ELSE ParseString(s, i + 1, Append(acc, s[i]))

\* a number: 0, or a digit 1-9 followed by digits; i is the index of its first digit
RECURSIVE ParseDigits(_, _, _)
ParseDigits(s, i, n) ==
  IF IndexOf(Digit, At(s, i)) = 0 THEN ParseOk(Num(n), i)
  ELSE ParseDigits(s, i + 1, 10 * n + IndexOf(Digit, s[i]) - 1)

ParseNumber(s, i) ==
  IF s[i] = "0" THEN ParseOk(Num(0), i + 1) ELSE ParseDigits(s, i, 0)

\* CreateDataProperty on the object being built: a repeated key keeps its
\* position and takes the later value
ObjPut(m, key, val) ==
  IF \E i \in 1..Len(m) : m[i][1] = key
    THEN [i \in 1..Len(m) |-> IF m[i][1] = key THEN <<key, val>> ELSE m[i]]
    ELSE Append(m, <<key, val>>)

RECURSIVE ParseValue(_, _)
RECURSIVE ParseElements(_, _, _)
RECURSIVE ParseMembers(_, _, _)

\* the elements of an array; a value is expected at i
ParseElements(s, i, acc) ==
  LET e == ParseValue(s, i)
      j == SkipWs(s, e.pos)
  IN IF ~e.ok THEN ParseFail
     ELSE IF At(s, j) = "," THEN ParseElements(s, j + 1, Append(acc, e.val))
     ELSE IF At(s, j) = "]" THEN ParseOk(Arr(Append(acc, e.val)), j + 1)
     ELSE ParseFail

\* the members of an object; a key is expected at i
ParseMembers(s, i, acc) ==
  LET j == SkipWs(s, i)
      key == ParseString(s, j + 1, <<>>)
      c == SkipWs(s, key.pos)
      val == ParseValue(s, c + 1)
      e == SkipWs(s, val.pos)
  IN IF At(s, j) # "\"" THEN ParseFail
     ELSE IF ~key.ok THEN ParseFail
     ELSE IF At(s, c) # ":" THEN ParseFail
     ELSE IF ~val.ok THEN ParseFail
     ELSE IF At(s, e) = "," THEN ParseMembers(s, e + 1, ObjPut(acc, key.val.v, val.val))
     ELSE IF At(s, e) = "}" THEN ParseOk(Obj(ObjPut(acc, key.val.v, val.val)), e + 1)
     ELSE ParseFail

ParseValue(s, i) ==
  LET j == SkipWs(s, i)
      c == At(s, j)
  IN CASE c = "[" ->
            IF At(s, SkipWs(s, j + 1)) = "]"
              THEN ParseOk(Arr(<<>>), SkipWs(s, j + 1) + 1)
              ELSE ParseElements(s, j + 1, <<>>)
       [] c = "{" ->
            IF At(s, SkipWs(s, j + 1)) = "}"
              THEN ParseOk(Obj(<<>>), SkipWs(s, j + 1) + 1)
              ELSE ParseMembers(s, j + 1, <<>>)
       [] c = "\"" -> ParseString(s, j + 1, <<>>)
       [] IndexOf(Digit, c) > 0 -> ParseNumber(s, j)
       [] c = "t" /\ IsLit(s, j, <<"t","r","u","e">>) -> ParseOk(Bool(TRUE), j + 4)
       [] c = "f" /\ IsLit(s, j, <<"f","a","l","s","e">>) -> ParseOk(Bool(FALSE), j + 5)
       [] c = "n" /\ IsLit(s, j, <<"n","u","l","l">>) -> ParseOk(Null, j + 4)
       [] OTHER -> ParseFail

\* JSON.parse(text): [ok |-> FALSE] stands for the SyntaxError it throws
JSONparse(s) ==
  Bind(ParseValue(s, 1),
       LAMBDA r : IF r.ok /\ SkipWs(s, r.pos) > Len(s)
                    THEN [ok |-> TRUE, val |-> r.val]
                    ELSE [ok |-> FALSE, val |-> Null])

-----------------------------------------------------------------------------
(* The history codec *)

\* s.replace(/^"(.+)"$/, '$1'): one layer of surrounding quotes is removed when
\* the whole text is a quote, one or more characters other than line terminators,
\* and a quote
StripQuotes(s) ==
  IF /\ Len(s) >= 3
     /\ s[1] = "\""
     /\ s[Len(s)] = "\""
     /\ \A i \in 2..(Len(s) - 1) : s[i] \notin {"\n", "\r"}
    THEN SubSeq(s, 2, Len(s) - 1)
    ELSE s

\* s.replace(/\\"/g, '"'): every backslash-quote pair becomes a quote
RECURSIVE UnescapeQuotes(_)
UnescapeQuotes(s) ==
  IF s = <<>> THEN <<>>
  ELSE IF Len(s) >= 2 /\ s[1] = "\\" /\ s[2] = "\""
    THEN <<"\"">> \o UnescapeQuotes(SubSeq(s, 3, Len(s)))
    ELSE <<s[1]>> \o UnescapeQuotes(Tail(s))

\* the forgiving second attempt of both codec functions
Unescaped(trimmed) == UnescapeQuotes(StripQuotes(trimmed))

sDate == <<"d","a","t","e">>
sLocation == <<"l","o","c","a","t","i","o","n">>
sMessage == <<"m","e","s","s","a","g","e">>
sCompleted == <<"c","o","m","p","l","e","t","e","d">>

\* an entry that carries the message alone
MessageOnly(text) == Obj(<< <<sMessage, Str(text)>> >>)

\* { date: '', location: '', message: text }
MessageEntry(text) ==
  Obj(<< <<sDate, Str(<<>>)>>, <<sLocation, Str(<<>>)>>, <<sMessage, Str(text)>> >>)

\* Array.isArray(x) ? x : []
ArrayOrEmpty(x) == IF x.k = "arr" THEN x ELSE Arr(<<>>)

\* a JSON branch that keeps an undecodable text as one message entry
parseHistoryJsonWrap(trimmed) ==
  Bind(JSONparse(trimmed), LAMBDA parsed :
    IF parsed.ok THEN ArrayOrEmpty(parsed.val)
    ELSE Bind(JSONparse(Unescaped(trimmed)), LAMBDA parsed2 :
      IF parsed2.ok THEN ArrayOrEmpty(parsed2.val) ELSE Arr(<<MessageEntry(trimmed)>>)))

\* the branch of parseHistory taken when the trimmed text starts with [ or {
parseHistoryJson(trimmed) ==
  Bind(JSONparse(trimmed), LAMBDA parsed :
    IF parsed.ok THEN ArrayOrEmpty(parsed.val)
    ELSE Bind(JSONparse(Unescaped(trimmed)), LAMBDA parsed2 :
      IF parsed2.ok THEN ArrayOrEmpty(parsed2.val) ELSE Arr(<<>>)))

\* parseHistory that takes an object for a history of that one entry
parseHistoryObjectAsEntry(historyStr) ==
  IF historyStr.k \in {"undefined", "null"} \/ historyStr = Str(<<>>) THEN Arr(<<>>)
  ELSE IF historyStr.k = "arr" THEN historyStr
  ELSE IF historyStr.k = "obj" THEN Arr(<<historyStr>>)
  ELSE IF historyStr.k = "str" THEN
    Bind(trim(historyStr.v), LAMBDA trimmed :
      IF startsWith(trimmed, "[") \/ startsWith(trimmed, "{")
        THEN parseHistoryJson(trimmed)
        ELSE Arr(<<MessageEntry(trimmed)>>))
  ELSE Arr(<<>>)

\* parseHistory without its JSON branch: every text becomes one message entry
parseHistoryAsText(historyStr) ==
  IF historyStr.k = "str" /\ historyStr.v # <<>>
    THEN Arr(<<MessageEntry(trim(historyStr.v))>>)
    ELSE Arr(<<>>)

parseHistory(historyStr) ==
  IF historyStr.k \in {"undefined", "null"} \/ historyStr = Str(<<>>) THEN Arr(<<>>)
  ELSE IF historyStr.k = "arr" THEN historyStr
  ELSE IF historyStr.k = "obj" THEN Arr(<<>>)
  ELSE IF historyStr.k = "str" THEN
    Bind(trim(historyStr.v), LAMBDA trimmed :
      IF startsWith(trimmed, "[") \/ startsWith(trimmed, "{")
        THEN parseHistoryJson(trimmed)
        ELSE Arr(<<MessageEntry(trimmed)>>))
  ELSE Arr(<<>>)

\* the branch of normalizeHistoryForStorage taken when the trimmed text starts
\* with [ or {
normalizeHistoryJson(trimmed) ==
  Bind(JSONparse(trimmed), LAMBDA parsed :
    IF parsed.ok THEN JSONstringify(ArrayOrEmpty(parsed.val))
    ELSE Bind(JSONparse(Unescaped(trimmed)), LAMBDA parsed2 :
      IF parsed2.ok THEN JSONstringify(ArrayOrEmpty(parsed2.val))
      ELSE JSONstringify(Arr(<<MessageEntry(trimmed)>>))))

\* normalizeHistoryForStorage that takes a number or a boolean for plain text
normalizeHistoryScalarAsText(history) ==
  IF history.k \in {"undefined", "null"} THEN <<"[", "]">>
  ELSE IF history.k = "arr" THEN
    IF Serializable(history) THEN JSONstringify(history) ELSE <<"[", "]">>
  ELSE IF history.k = "str" THEN
    Bind(trim(history.v), LAMBDA trimmed :
      IF startsWith(trimmed, "[") \/ startsWith(trimmed, "{")
        THEN normalizeHistoryJson(trimmed)
        ELSE JSONstringify(Arr(<<MessageEntry(trimmed)>>)))
  ELSE IF history.k \in {"num", "bool"}
    THEN JSONstringify(Arr(<<MessageEntry(String(history))>>))
  ELSE <<"[", "]">>

\* normalizeHistoryForStorage that stores a text as it came
normalizeHistoryRaw(history) ==
  IF history.k = "str" THEN trim(history.v)
  ELSE IF history.k = "arr" THEN JSONstringify(history)
  ELSE <<"[", "]">>

normalizeHistoryForStorage(history) ==
  IF history.k \in {"undefined", "null"} THEN <<"[", "]">>
  ELSE IF history.k = "arr" THEN
    \* JSON.stringify raises on a value it cannot write; the outer catch returns '[]'
    IF Serializable(history) THEN JSONstringify(history) ELSE <<"[", "]">>
  ELSE IF history.k = "str" THEN
    Bind(trim(history.v), LAMBDA trimmed :
      IF startsWith(trimmed, "[") \/ startsWith(trimmed, "{")
        THEN normalizeHistoryJson(trimmed)
        ELSE JSONstringify(Arr(<<MessageEntry(trimmed)>>)))
  ELSE <<"[", "]">>

-----------------------------------------------------------------------------
(* The store: the grid of one sheet tab.  sheet[1] is the header row, the  *)
(* other rows are data rows; a cell is a string.                           *)

sTrackingId == <<"t","r","a","c","k","i","n","g","I","d">>
sStatus == <<"s","t","a","t","u","s">>
sHistory == <<"h","i","s","t","o","r","y">>

\* a row as spreadsheets.values.get returns it: trailing empty cells are omitted
RowValues(row) ==
  LET full == {i \in 1..Len(row) : row[i] # <<>>}
  IN IF full = {} THEN <<>> ELSE SubSeq(row, 1, Max(full))

\* resp.data.values || [] of a read of the whole tab
valuesGet(sh) == [i \in 1..Len(sh) |-> RowValues(sh[i])]

\* vals[0].map((h) => (typeof h === 'string' ? h.trim() : h))
TrimHeaders(row) == [i \in 1..Len(row) |-> trim(row[i])]

\* readHeader / getHeaders: the trimmed cells of row 1 (reads of the store succeed
\* and row 1 is not empty, so neither the fallback read nor the re-resolution of
\* the tab is taken)
getHeaders(sh) == TrimHeaders(RowValues(sh[1]))

\* a cell read without the test for undefined: a missing cell becomes the text
\* 'undefined'
CellOrUndefinedText(row, idx) ==
  IF idx <= Len(row) THEN row[idx] ELSE <<"u", "n", "d", "e", "f", "i", "n", "e", "d">>

\* row[idx] === undefined ? '' : row[idx]
CellOr(row, idx) == IF idx <= Len(row) THEN row[idx] ELSE <<>>

\* headers.forEach((h, idx) => { obj[h] = h === 'history' ? parseHistory(val) : val })
RECURSIVE MapRowFrom(_, _, _, _)
MapRowFrom(headers, row, idx, obj) ==
  IF idx > Len(headers) THEN obj
  ELSE MapRowFrom(headers, row, idx + 1,
         ObjPut(obj, headers[idx],
                IF headers[idx] = sHistory
                  THEN parseHistory(Str(CellOr(row, idx)))
                  ELSE Str(CellOr(row, idx))))

MapRow(headers, row) == Obj(MapRowFrom(headers, row, 1, <<>>))

\* getAllRows
getAllRows(sh) ==
  Bind(valuesGet(sh), LAMBDA vals :
    IF Len(vals) = 0 THEN [headers |-> <<>>, rows |-> <<>>]
    ELSE Bind(TrimHeaders(vals[1]), LAMBDA headers :
      [headers |-> headers,
       rows |-> [i \in 1..(Len(vals) - 1) |-> MapRow(headers, vals[i + 1])]]))

\* const needle = String(trackingId).trim().toUpperCase()
Needle(trackingId) == toUpperCase(trim(String(trackingId)))

\* rawCell.replace(/\u00A0/g, ' ')
ReplaceNbsp(s) == [i \in 1..Len(s) |-> IF s[i] = "nbsp" THEN " " ELSE s[i]]

\* const cell = rawCell.replace(/\u00A0/g, ' ').trim().toUpperCase()
CellKey(rawCell) == toUpperCase(trim(ReplaceNbsp(rawCell)))

\* findIndex that falls back to the first column when no header is 'trackingId'
TrackingIdxOrFirst(headers) ==
  IF IndexOf(TrimHeaders(headers), sTrackingId) = 0
    THEN 1 ELSE IndexOf(TrimHeaders(headers), sTrackingId)

\* headers.findIndex((h) => String(h).trim() === 'trackingId'), 1-based; 0 for -1
TrackingIdx(headers) == IndexOf(TrimHeaders(headers), sTrackingId)

\* the indices i (1-based, in the data rows) at which the loop's test
\* cell === needle holds
MatchingRows(rows, trackingIdx, needle) ==
  {i \in 1..Len(rows) : CellKey(CellOr(rows[i], trackingIdx)) = needle}

NotFound == [kind |-> "null", rowIndex |-> 0, data |-> Null, err |-> ""]
Thrown(msg) == [kind |-> "throw", rowIndex |-> 0, data |-> Null, err |-> msg]

\* a scan that keeps going after a match and returns the last matching row
ScanRowsLast(headers, rows, trackingIdx, needle) ==
  Bind(MatchingRows(rows, trackingIdx, needle), LAMBDA matching :
    IF matching = {} THEN NotFound
    ELSE [kind |-> "found",
          rowIndex |-> Max(matching) + 1,
          data |-> MapRow(headers, rows[Max(matching)]),
          err |-> ""])

\* a scan that raises when no row matches instead of returning null
ScanRowsOrThrow(headers, rows, trackingIdx, needle) ==
  Bind(MatchingRows(rows, trackingIdx, needle), LAMBDA matching :
    IF matching = {} THEN Thrown("Tracking ID not found")
    ELSE [kind |-> "found",
          rowIndex |-> Min(matching) + 1,
          data |-> MapRow(headers, rows[Min(matching)]),
          err |-> ""])

\* the scan of getRowByTrackingId: the first data row whose cell matches
ScanRows(headers, rows, trackingIdx, needle) ==
  Bind(MatchingRows(rows, trackingIdx, needle), LAMBDA matching :
    IF matching = {} THEN NotFound
    ELSE [kind |-> "found",
          rowIndex |-> Min(matching) + 1,
          data |-> MapRow(headers, rows[Min(matching)]),
          err |-> ""])

\* getRowByTrackingId: { rowIndex, data }, null, or the error it throws
getRowByTrackingId(sh, trackingId) ==
  IF ~Truthy(trackingId) THEN NotFound
  ELSE Bind(valuesGet(sh), LAMBDA vals :
    IF Len(vals) < 2 THEN NotFound
    ELSE Bind(TrimHeaders(vals[1]), LAMBDA headers :
      Bind(TrackingIdx(headers), LAMBDA trackingIdx :
        IF trackingIdx = 0
          THEN Thrown("trackingId column not found in headers")
          ELSE ScanRows(headers, Tail(vals), trackingIdx, Needle(trackingId)))))

-----------------------------------------------------------------------------
(* Writes: createRow, updateRow, deleteRow.  An operation returns          *)
(* [kind, err, sheet, out, payload, rowIndex]: whether it returned ("ok")  *)
(* or threw ("throw") and with which message, the grid after it, the value *)
(* it returned, the row it wrote and the position it wrote or removed.     *)

\* obj[key], undefined when obj has no such property
Get(obj, key) ==
  IF obj.k = "obj" /\ \E i \in 1..Len(obj.v) : obj.v[i][1] = key
    THEN obj.v[CHOOSE i \in 1..Len(obj.v) : obj.v[i][1] = key][2]
    ELSE Undef

\* rowData.history || []
HistoryOrEmpty(rowData) ==
  Bind(Get(rowData, sHistory), LAMBDA history :
    IF Truthy(history) THEN history ELSE Arr(<<>>))

\* a payload cell without the test for undefined and null
PayloadCellUnchecked(h, rowData) ==
  IF h = sHistory THEN normalizeHistoryForStorage(HistoryOrEmpty(rowData))
  ELSE String(Get(rowData, h))

\* the cell written for header column h
PayloadCell(h, rowData) ==
  IF h = sHistory THEN normalizeHistoryForStorage(HistoryOrEmpty(rowData))
  ELSE Bind(Get(rowData, h), LAMBDA field :
    IF field.k \notin {"undefined", "null"} THEN String(field) ELSE <<>>)

\* const payload = headers.map((h) => ...)
BuildPayload(headers, rowData) ==
  [i \in 1..Len(headers) |-> PayloadCell(headers[i], rowData)]

\* the record createRow and updateRow return, rebuilt from the payload
RecordOf(headers, payload) == MapRow(headers, payload)

OpThrow(sh, msg) ==
  [kind |-> "throw", err |-> msg, sheet |-> sh, out |-> Undef,
   payload |-> <<>>, rowIndex |-> 0]

\* spreadsheets.values.append with INSERT_ROWS: the row goes after the last row
AppendRow(sh, payload) == Append(sh, payload)

\* an update that takes rowIndex for the 0-based index of the row
UpdateRangeBelow(sh, r, payload) ==
  IF r < Len(sh) THEN [sh EXCEPT ![r + 1] = payload] ELSE Append(sh, payload)

\* spreadsheets.values.update of the range A<r>:<lastCol><r>: the first
\* Len(payload) cells of row r are replaced; a row below the last filled row
\* is empty, and writing it leaves the rows in between empty
UpdateRange(sh, r, payload) ==
  IF r <= Len(sh)
    THEN [sh EXCEPT ![r] = payload \o SubSeq(sh[r], Len(payload) + 1, Len(sh[r]))]
    ELSE sh \o [i \in 1..(r - Len(sh) - 1) |-> <<>>] \o <<payload>>

\* a deleteDimension whose range starts one row too low
DeleteDimensionBelow(sh, startIndex, endIndex) ==
  SubSeq(sh, 1, startIndex + 1) \o SubSeq(sh, endIndex + 2, Len(sh))

\* batchUpdate deleteDimension ROWS [startIndex, endIndex): the rows at the
\* 0-based positions startIndex..endIndex-1 are removed and the rest move up;
\* removing an empty row below the last filled row changes no filled row
DeleteDimension(sh, startIndex, endIndex) ==
  IF startIndex >= Len(sh) THEN sh
  ELSE SubSeq(sh, 1, startIndex) \o SubSeq(sh, endIndex + 1, Len(sh))

createRow(sh, rowData) ==
  Bind(getHeaders(sh), LAMBDA headers :
    Bind(BuildPayload(headers, rowData), LAMBDA payload :
      [kind |-> "ok", err |-> "", sheet |-> AppendRow(sh, payload),
       out |-> RecordOf(headers, payload), payload |-> payload,
       rowIndex |-> Len(sh) + 1]))

\* an updateRow that appends the record when no row matches
updateRowOrCreate(sh, trackingId, rowData) ==
  Bind(getRowByTrackingId(sh, trackingId), LAMBDA found :
    IF found.kind = "throw" THEN OpThrow(sh, found.err)
    ELSE Bind(getHeaders(sh), LAMBDA headers :
      Bind(BuildPayload(headers, rowData), LAMBDA payload :
        IF found.kind = "null"
          THEN [kind |-> "ok", err |-> "", sheet |-> AppendRow(sh, payload),
                out |-> RecordOf(headers, payload), payload |-> payload,
                rowIndex |-> Len(sh) + 1]
          ELSE [kind |-> "ok", err |-> "",
                sheet |-> UpdateRange(sh, found.rowIndex, payload),
                out |-> RecordOf(headers, payload), payload |-> payload,
                rowIndex |-> found.rowIndex])))

updateRow(sh, trackingId, rowData) ==
  Bind(getRowByTrackingId(sh, trackingId), LAMBDA found :
    IF found.kind = "throw" THEN OpThrow(sh, found.err)
    ELSE IF found.kind = "null" THEN OpThrow(sh, "Tracking ID not found")
    ELSE Bind(getHeaders(sh), LAMBDA headers :
      Bind(BuildPayload(headers, rowData), LAMBDA payload :
        [kind |-> "ok", err |-> "",
         sheet |-> UpdateRange(sh, found.rowIndex, payload),
         out |-> RecordOf(headers, payload), payload |-> payload,
         rowIndex |-> found.rowIndex])))

deleteRow(sh, trackingId) ==
  Bind(getRowByTrackingId(sh, trackingId), LAMBDA found :
    IF found.kind = "throw" THEN OpThrow(sh, found.err)
    ELSE IF found.kind = "null" THEN OpThrow(sh, "Tracking ID not found")
    ELSE [kind |-> "ok", err |-> "",
          sheet |-> DeleteDimension(sh, found.rowIndex - 1, found.rowIndex),
          out |-> Bool(TRUE), payload |-> <<>>, rowIndex |-> found.rowIndex])

-----------------------------------------------------------------------------
(* The HTTP handlers.  A handler returns [status, err, out, sheet, payload, *)
(* rowIndex]: the response's status, its error message ("" when none) and  *)
(* body, the grid after the request, and the row and position written.     *)

Respond(status, err, out, sh) ==
  [status |-> status, err |-> err, out |-> out, sheet |-> sh,
   payload |-> <<>>, rowIndex |-> 0]

sCreated == <<"c","r","e","a","t","e","d">>
sData == <<"d","a","t","a">>
sHeaders == <<"h","e","a","d","e","r","s">>
sRows == <<"r","o","w","s">>
sRow == <<"r","o","w">>

\* the keyMap of GET /api/track: header variants and their canonical keys
keyMap ==
  <<
     <<<<"t","r","a","c","k","i","n","g","i","d">>,
       <<"t","r","a","c","k","i","n","g","I","d">>>>,
     <<<<"t","r","a","c","k","i","n","g"," ","i","d">>,
       <<"t","r","a","c","k","i","n","g","I","d">>>>,
     <<<<"i","d">>,
       <<"t","r","a","c","k","i","n","g","I","d">>>>,
     <<<<"s","t","a","t","u","s">>,
       <<"s","t","a","t","u","s">>>>,
     <<<<"s","t","a","t","e">>,
       <<"s","t","a","t","u","s">>>>,
     <<<<"o","r","i","g","i","n">>,
       <<"o","r","i","g","i","n">>>>,
     <<<<"f","r","o","m">>,
       <<"o","r","i","g","i","n">>>>,
     <<<<"d","e","s","t","i","n","a","t","i","o","n">>,
       <<"d","e","s","t","i","n","a","t","i","o","n">>>>,
     <<<<"t","o">>,
       <<"d","e","s","t","i","n","a","t","i","o","n">>>>,
     <<<<"l","a","s","t","u","p","d","a","t","e","d">>,
       <<"l","a","s","t","U","p","d","a","t","e","d">>>>,
     <<<<"l","a","s","t"," ","u","p","d","a","t","e","d">>,
       <<"l","a","s","t","U","p","d","a","t","e","d">>>>,
     <<<<"u","p","d","a","t","e","d">>,
       <<"l","a","s","t","U","p","d","a","t","e","d">>>>,
     <<<<"e","s","t","i","m","a","t","e","d","d","e","l","i","v","e","r","y">>,
       <<"e","s","t","i","m","a","t","e","d","D","e","l","i","v","e","r","y">>>>,
     <<<<"e","s","t","i","m","a","t","e","d"," ","d","e","l","i","v","e","r","y">>,
       <<"e","s","t","i","m","a","t","e","d","D","e","l","i","v","e","r","y">>>>,
     <<<<"e","t","a">>,
       <<"e","s","t","i","m","a","t","e","d","D","e","l","i","v","e","r","y">>>>,
     <<<<"h","i","s","t","o","r","y">>,
       <<"h","i","s","t","o","r","y">>>>,
     <<<<"e","v","e","n","t","s">>,
       <<"h","i","s","t","o","r","y">>>>
  >>

\* keyMap[lower] || String(k).trim()
MappedKey(key) ==
  Bind(toLowerCase(trim(key)), LAMBDA lower :
    IF \E i \in 1..Len(keyMap) : keyMap[i][1] = lower
      THEN keyMap[CHOOSE i \in 1..Len(keyMap) : keyMap[i][1] = lower][2]
      ELSE trim(key))

\* Object.keys(raw).forEach(k => { normalized[mapped] = raw[k] })
RECURSIVE NormalizeKeys(_, _, _)
NormalizeKeys(raw, idx, normalized) ==
  IF idx > Len(raw) THEN normalized
  ELSE NormalizeKeys(raw, idx + 1, ObjPut(normalized, MappedKey(raw[idx][1]), raw[idx][2]))

\* the keys GET /api/track defaults to ''
CanonicalKeys ==
  <<
     <<"t","r","a","c","k","i","n","g","I","d">>,
     <<"s","t","a","t","u","s">>,
     <<"o","r","i","g","i","n">>,
     <<"d","e","s","t","i","n","a","t","i","o","n">>,
     <<"l","a","s","t","U","p","d","a","t","e","d">>,
     <<"e","s","t","i","m","a","t","e","d","D","e","l","i","v","e","r","y">>
  >>

\* { trackingId: normalized.trackingId || '', ..., ...normalized }
RECURSIVE WithDefaults(_, _, _)
WithDefaults(normalized, idx, data) ==
  IF idx > Len(CanonicalKeys) THEN data
  ELSE WithDefaults(normalized, idx + 1,
         ObjPut(data, CanonicalKeys[idx],
                Bind(Get(Obj(normalized), CanonicalKeys[idx]), LAMBDA field :
                  IF Truthy(field) THEN field ELSE Str(<<>>))))

RECURSIVE Spread(_, _, _)
Spread(normalized, idx, data) ==
  IF idx > Len(normalized) THEN data
  ELSE Spread(normalized, idx + 1, ObjPut(data, normalized[idx][1], normalized[idx][2]))

\* "Ensure history is an array" of GET /api/track
EnsureHistory(h) ==
  IF h.k \in {"undefined", "null"} THEN Arr(<<>>)
  ELSE IF h.k = "str" THEN
    Bind(JSONparse(h.v), LAMBDA parsed : IF parsed.ok THEN parsed.val ELSE Arr(<<>>))
  ELSE IF h.k # "arr" THEN Arr(<<>>)
  ELSE h

\* data.history.map(h => (h && typeof h === 'object' ? h : {}))
ObjectItems(a) ==
  Arr([i \in 1..Len(a.v) |-> IF a.v[i].k \in {"obj", "arr"} THEN a.v[i] ELSE Obj(<<>>)])

\* the body GET /api/track builds from the located record; a history that is
\* not an array after EnsureHistory has no map method and the handler's catch
\* answers 500
TrackResponse(sh, raw) ==
  Bind(NormalizeKeys(raw.v, 1, <<>>), LAMBDA normalized :
    Bind(Spread(normalized, 1, WithDefaults(normalized, 1, <<>>)), LAMBDA data :
      Bind(EnsureHistory(Get(Obj(data), sHistory)), LAMBDA history :
        IF history.k # "arr"
          THEN Respond(500, "data.history.map is not a function", Undef, sh)
          ELSE Respond(200, "", Obj(ObjPut(data, sHistory, ObjectItems(history))), sh))))

\* app.get('/api/track')
GetTrack(sh, id) ==
  IF ~Truthy(id) THEN Respond(400, "Tracking ID required", Undef, sh)
  ELSE Bind(getRowByTrackingId(sh, id), LAMBDA result :
    IF result.kind = "throw" THEN Respond(500, result.err, Undef, sh)
    ELSE IF result.kind = "null" THEN Respond(404, "Tracking ID not found", Undef, sh)
    ELSE TrackResponse(sh, result.data))

\* the history normalization of POST /api/track
IncomingHistory(h) ==
  IF h.k \in {"undefined", "null"} THEN Arr(<<>>)
  ELSE IF h.k = "str" THEN
    Bind(JSONparse(h.v), LAMBDA parsed :
      IF parsed.ok THEN ArrayOrEmpty(parsed.val) ELSE Arr(<<MessageEntry(String(h))>>))
  ELSE IF h.k # "arr" THEN Arr(<<>>)
  ELSE h

\* the response of a write that returned or threw
WriteResponse(op, status, created) ==
  IF op.kind = "throw"
    THEN [status |-> 500, err |-> op.err, out |-> Undef, sheet |-> op.sheet,
          payload |-> <<>>, rowIndex |-> 0]
    ELSE [status |-> status, err |-> "",
          out |-> Obj(<< <<sCreated, Bool(created)>>, <<sData, op.out>> >>),
          sheet |-> op.sheet, payload |-> op.payload, rowIndex |-> op.rowIndex]

\* app.post('/api/track')
PostTrack(sh, body) ==
  IF ~Truthy(body) \/ ~Truthy(Get(body, sTrackingId))
    THEN Respond(400, "trackingId is required", Undef, sh)
  ELSE Bind(Obj(ObjPut(body.v, sHistory, IncomingHistory(Get(body, sHistory)))),
            LAMBDA rowData :
    Bind(getRowByTrackingId(sh, Get(rowData, sTrackingId)), LAMBDA existing :
      IF existing.kind = "throw" THEN Respond(500, existing.err, Undef, sh)
      ELSE IF existing.kind = "found"
        THEN WriteResponse(updateRow(sh, Get(rowData, sTrackingId), rowData), 200, FALSE)
      ELSE WriteResponse(createRow(sh, rowData), 201, TRUE)))

\* authenticateToken: 0 when the request goes on to the handler
authenticateToken(token) ==
  IF token = "none" THEN 401 ELSE IF token # "valid" THEN 403 ELSE 0

AuthError(status) ==
  IF status = 401 THEN "Access token required" ELSE "Invalid or expired token"

\* the response authenticateToken sends instead of calling the handler
Rejected(token, sh) ==
  Respond(authenticateToken(token), AuthError(authenticateToken(token)), Undef, sh)

StrArr(ss) == Arr([i \in 1..Len(ss) |-> Str(ss[i])])

\* app.get('/api/admin/trackings')
AdminList(sh, token) ==
  IF authenticateToken(token) # 0 THEN Rejected(token, sh)
    ELSE Respond(200, "",
           Obj(<< <<sHeaders, StrArr(getHeaders(sh))>>,
                  <<sRows, Arr(getAllRows(sh).rows)>> >>), sh)

\* app.get('/api/admin/track/:id')
AdminFetch(sh, token, id) ==
  IF authenticateToken(token) # 0 THEN Rejected(token, sh)
  ELSE Bind(getRowByTrackingId(sh, id), LAMBDA result :
    IF result.kind = "throw" THEN Respond(500, result.err, Undef, sh)
    ELSE IF result.kind = "null" THEN Respond(404, "Tracking ID not found", Undef, sh)
    ELSE Respond(200, "",
           Obj(<< <<sHeaders, StrArr(getHeaders(sh))>>, <<sRow, result.data>> >>), sh))

\* an admin delete that removes the row before the token is looked at
AdminDeleteThenCheck(sh, token, id) ==
  Bind(deleteRow(sh, id), LAMBDA op :
    IF authenticateToken(token) # 0 THEN Rejected(token, op.sheet)
    ELSE IF op.kind = "throw" THEN Respond(500, op.err, Undef, sh)
    ELSE [status |-> 200, err |-> "", out |-> Undef, sheet |-> op.sheet,
          payload |-> <<>>, rowIndex |-> op.rowIndex])

\* app.delete('/api/admin/track/:id')
AdminDelete(sh, token, id) ==
  IF authenticateToken(token) # 0 THEN Rejected(token, sh)
  ELSE Bind(deleteRow(sh, id), LAMBDA op :
    IF op.kind = "throw" THEN Respond(500, op.err, Undef, sh)
    ELSE [status |-> 200, err |-> "", out |-> Undef, sheet |-> op.sheet,
          payload |-> <<>>, rowIndex |-> op.rowIndex])

-----------------------------------------------------------------------------
(* Bounds and inputs *)

\* the most data rows the sheet holds
MaxRows == 2
\* the most entries of a history array drawn as an input
MaxHist == 2

sId == <<"i","d">>
sExtra == <<"n","o","t","e">>

\* header rows: the README's columns, the same with padded names and history
\* not last, and a header without the identifier column
HeaderStd == <<sTrackingId, sStatus, sHistory>>
HeaderPadded == <<sHistory, <<" ">> \o sTrackingId \o <<"nbsp">>, sStatus>>
\* a header whose history column is named 'History', a variant GET /api/track
\* maps to history; getRowByTrackingId decodes only the column named 'history'
HeaderVariant == <<sTrackingId, sStatus, <<"H","i","s","t","o","r","y">>>>
Headers == {HeaderStd, HeaderPadded, <<sId, sStatus, sHistory>>}

\* identifiers: two records, a and b, written in several ways
idA == <<"a">>
idAPadded == <<" ", "A", "nbsp">>
idB == <<"b">>
idInnerNbsp == <<"a", "nbsp", "b">>
idInnerSpace == <<"a", " ", "b">>
idAbsent == <<"c">>

sBrackets == <<"[", "]">>
sPlain == <<"n", "o", " ", "j">>
sMalformed == <<"[", "{">>
\* [{"message":"a"}]
sOneEntry == <<"[", "{", "\"">> \o sMessage \o <<"\"", ":", "\"", "a", "\"", "}", "]">>

\* the cells of a data row that somebody typed into the sheet
SeedRecords ==
  { [id |-> idA, status |-> <<"s">>, history |-> sOneEntry],
    [id |-> idAPadded, status |-> <<>>, history |-> <<>>],
    [id |-> idB, status |-> <<"7">>, history |-> sPlain],
    [id |-> idInnerNbsp, status |-> <<"s">>, history |-> sMalformed],
    [id |-> <<>>, status |-> <<"e">>, history |-> sBrackets] }

SeedCell(h, rec) ==
  IF trim(h) \in {sTrackingId, sId} THEN rec.id
  ELSE IF trim(h) = sStatus THEN rec.status
  ELSE rec.history

SeedRow(header, rec) == RowValues([i \in 1..Len(header) |-> SeedCell(header[i], rec)])

RECURSIVE SeqsUpTo(_, _)
\* the sequences of at most n elements of S
SeqsUpTo(S, n) ==
  IF n = 0 THEN {<<>>}
  ELSE SeqsUpTo(S, n - 1) \cup
       {Append(s, x) : s \in {q \in SeqsUpTo(S, n - 1) : Len(q) = n - 1}, x \in S}

\* the sheets the service starts on; under the 'History' header the cells hold
\* JSON text: an array of one entry, or the object {}
SeedSheets ==
  {<<header>> \o [i \in 1..Len(recs) |-> SeedRow(header, recs[i])] :
     header \in Headers, recs \in SeqsUpTo(SeedRecords, MaxRows)}
  \cup
  {<<HeaderVariant>> \o [i \in 1..Len(recs) |-> SeedRow(HeaderVariant, recs[i])] :
     recs \in SeqsUpTo({[id |-> idA, status |-> <<"o">>, history |-> <<"{", "}">>],
                        [id |-> idB, status |-> <<"7">>, history |-> sOneEntry]}, MaxRows)}

\* history entries with string date/location/message and optional completed
Entry(date, location, message, completed) ==
  Obj(<< <<sDate, Str(date)>>, <<sLocation, Str(location)>>, <<sMessage, Str(message)>> >>
      \o (IF completed = "absent" THEN <<>> ELSE << <<sCompleted, Bool(completed = "true")>> >>))

Entries ==
  {Entry(d, <<"S", " ", "H">>, m, c) :
     d \in {<<>>, <<"2", "-", "1">>},
     m \in {<<>>, <<"a", "\"", "\\">>, <<"[", "nbsp", "\n">>},
     c \in {"absent", "true", "false"}}

WellFormedHistories == {Arr(h) : h \in SeqsUpTo(Entries, MaxHist)}

\* the inverse of the forgiving rewrite: every quote gets a backslash in front
RECURSIVE EscapeQuotes(_)
EscapeQuotes(s) ==
  IF s = <<>> THEN <<>>
  ELSE (IF s[1] = "\"" THEN <<"\\", "\"">> ELSE <<s[1]>>) \o EscapeQuotes(Tail(s))

\* a double-encoded text: "\"[...]\"", the text in one layer of quotes with its
\* own quotes escaped
DoubleEncoded(s) == <<"\"">> \o EscapeQuotes(s) \o <<"\"">>

\* the history arrays that arrive double-encoded: [] and [{"message":"a"}]
ShortHistories == {Arr(<<>>), Arr(<<Obj(<< <<sMessage, Str(<<"a">>)>> >>)>>)}

DoubleEncodedHistories == {Str(DoubleEncoded(JSONstringify(h))) : h \in ShortHistories}

\* history values of the other shapes a request can carry
HistoryStrings ==
  { <<>>, <<" ">>, sBrackets, <<" ", "[", " ", "]", "nbsp">>, sPlain, sMalformed, sOneEntry,
    <<" ">> \o sPlain \o <<"nbsp", "\n">>,
    <<"{", "\"", "a", "\"", ":", "1", "}">>,
    <<"[", "\\", "\"", "a", "\\", "\"", "]">>,
    <<"\"", "[", "]", "\"">>,
    <<"n", "u", "l", "l">>, <<"5">>, <<"[", "1", ",", "]">> }

OtherHistories ==
  {Undef, Null, Num(0), Num(5), Bool(TRUE), Obj(<<>>), Obj(<< <<sMessage, Str(<<"a">>)>> >>),
   Arr(<<Num(1), Null, Str(<<"x">>)>>),
   BigInt(7), Arr(<<BigInt(7)>>), Arr(<<Obj(<< <<sMessage, Str(<<"a">>)>>, <<sDate, BigInt(7)>> >>)>>)}
  \cup {Str(s) : s \in HistoryStrings}

\* a request body: the fields that are given, in order
Body(fields) == Obj(fields)

PostBodies ==
  { Body(<< <<sTrackingId, Str(idA)>>, <<sStatus, Str(<<"s">>)>>,
            <<sHistory, Arr(<<Entry(<<>>, <<"S", " ", "H">>, <<"a", "\"", "\\">>, "true")>>)>> >>),
    Body(<< <<sTrackingId, Str(idAPadded)>>, <<sHistory, Str(sPlain)>> >>),
    Body(<< <<sHistory, Str(sMalformed)>>, <<sExtra, Str(<<"q">>)>>,
            <<sTrackingId, Str(idB)>>, <<sStatus, Num(70)>> >>),
    Body(<< <<sTrackingId, Str(idInnerNbsp)>>, <<sStatus, Null>> >>),
    Body(<< <<sStatus, Str(<<"s">>)>> >>),
    Body(<< <<sTrackingId, Str(<<>>)>>, <<sHistory, Arr(<<>>)>> >>) }

\* the arguments getRowByTrackingId is called with
LookupIds ==
  {Undef, Str(<<>>), Str(<<" ">>), Num(7), Str(idA), Str(idAPadded), Str(idB),
   Str(idInnerNbsp), Str(idInnerSpace), Str(idAbsent)}

\* bearer token and :id of the admin routes
AdminCalls ==
  { <<"none", Str(idA)>>, <<"invalid", Str(idA)>>, <<"valid", Str(idA)>>,
    <<"valid", Str(idAPadded)>>, <<"valid", Str(idB)>>, <<"valid", Str(idInnerNbsp)>>,
    <<"valid", Str(idAbsent)>> }

\* the arguments updateRow is called with: an identifier and the record to write
UpdateCalls ==
  { <<Str(idA), Body(<< <<sTrackingId, Str(idA)>>, <<sStatus, Str(<<"u">>)>> >>)>>,
    <<Str(idB), Body(<< <<sTrackingId, Str(idA)>>, <<sHistory, Str(sBrackets)>> >>)>>,
    <<Str(idAbsent), Body(<< <<sTrackingId, Str(idAbsent)>> >>)>>,
    <<Str(<<>>), Body(<< <<sStatus, Str(<<"u">>)>> >>)>> }

\* the arguments deleteRow is called with
DeleteIds == {Undef, Str(idA), Str(idB), Str(idInnerNbsp), Str(idAbsent)}

\* the records createRow and updateRow are called with: every shape of history,
\* fields that are missing, null, not text, and fields that are no header column
RowDatas ==
  { Body(<< <<sTrackingId, Str(idA)>>, <<sStatus, Str(<<"s">>)>>,
            <<sHistory, Arr(<<Entry(<<>>, <<"S", " ", "H">>, <<"a", "\"", "\\">>, "true")>>)>> >>),
    Body(<< <<sTrackingId, Str(idB)>>, <<sHistory, Str(sOneEntry)>>, <<sExtra, Str(<<"q">>)>> >>),
    Body(<< <<sHistory, Str(sMalformed)>>, <<sTrackingId, Str(idA)>>, <<sStatus, Num(70)>> >>),
    Body(<< <<sTrackingId, Str(idAbsent)>>, <<sStatus, Null>>, <<sHistory, Str(sPlain)>> >>),
    Body(<< <<sTrackingId, Str(idA)>>, <<sStatus, Bool(TRUE)>>,
            <<sHistory, Obj(<< <<sMessage, Str(<<"a">>)>> >>)>> >>),
    Body(<< <<sTrackingId, Str(idB)>>, <<sHistory, Num(5)>> >>),
    Body(<< <<sTrackingId, Str(idB)>>, <<sStatus, Str(<<>>)>>, <<sHistory, Null>> >>),
    Body(<< <<sTrackingId, Str(idAbsent)>> >>),
    Body(<< <<sTrackingId, Str(idA)>>, <<sHistory, Str(<<"\"", "[", "]", "\"">>)>> >>),
    Body(<< <<sTrackingId, Str(idA)>>, <<sStatus, Arr(<<Str(<<"x">>), Num(1)>>)>>,
            <<sHistory, Str(<<"{", "\"", "a", "\"", ":", "1", "}">>)>> >>),
    Body(<< <<sStatus, Str(<<"s">>)>>, <<sHistory, Num(0)>> >>) }

\* the arguments updateRow is called with when the records are drawn from RowDatas
WideUpdateCalls ==
  {<<Str(idA), rowData>> : rowData \in RowDatas}
    \cup {<<Str(idAbsent), Body(<< <<sTrackingId, Str(idAbsent)>> >>)>>}

\* the sheets the writes start from
WriteSheets ==
  {<<header>> \o [i \in 1..Len(recs) |-> SeedRow(header, recs[i])] :
     header \in {HeaderStd, HeaderPadded},
     recs \in {<<>>, <<[id |-> idA, status |-> <<"s">>, history |-> sOneEntry]>>}}

\* the values the codec functions are called with
CodecInputs == WellFormedHistories \cup OtherHistories \cup DoubleEncodedHistories

-----------------------------------------------------------------------------
(* The server: requests are served one at a time, each to completion.      *)
(* last records the request being answered: the operation, its arguments,  *)
(* the grid before it (pre) and what it answers (res); it is "idle" once   *)
(* the answer has been delivered.                                          *)

Call(op, id, body, token, pre, res) ==
  [op |-> op, id |-> id, body |-> body, token |-> token, pre |-> pre, res |-> res]

Idle(sh) == Call("idle", Undef, Undef, "none", sh, NotFound)

Init ==
  /\ sheet \in SeedSheets
  /\ titles = << <<"D">> >>
  /\ flights = <<>>
  /\ sheetName = titles[1]
  /\ last = Idle(sheet)

\* the model stops adding rows at MaxRows data rows
Fits(sh) == Len(sh) <= MaxRows + 1

\* getRowByTrackingId called by another module
CallGetRow ==
  /\ last.op = "idle"
  /\ \E id \in LookupIds :
    /\ last' = Call("getRowByTrackingId", id, Undef, "none", sheet,
                    getRowByTrackingId(sheet, id))
    /\ UNCHANGED <<sheet, sheetName, titles, flights>>

\* updateRow called by another module
CallUpdateRow ==
  /\ last.op = "idle"
  /\ \E c \in UpdateCalls : \E res \in {updateRow(sheet, c[1], c[2])} :
       /\ last' = Call("updateRow", c[1], c[2], "none", sheet, res)
       /\ sheet' = res.sheet
       /\ UNCHANGED <<sheetName, titles, flights>>

\* deleteRow called by another module
CallDeleteRow ==
  /\ last.op = "idle"
  /\ \E id \in DeleteIds : \E res \in {deleteRow(sheet, id)} :
       /\ last' = Call("deleteRow", id, Undef, "none", sheet, res)
       /\ sheet' = res.sheet
       /\ UNCHANGED <<sheetName, titles, flights>>

ReqGetTrack ==
  /\ last.op = "idle"
  /\ \E id \in {Undef, Str(idA), Str(idAPadded), Str(idInnerSpace), Str(idAbsent)} :
    /\ last' = Call("GET /api/track", id, Undef, "none", sheet, GetTrack(sheet, id))
    /\ UNCHANGED <<sheet, sheetName, titles, flights>>

ReqPostTrack ==
  /\ last.op = "idle"
  /\ \E body \in PostBodies : \E res \in {PostTrack(sheet, body)} :
       /\ Fits(res.sheet)
       /\ last' = Call("POST /api/track", Get(body, sTrackingId), body, "none", sheet, res)
       /\ sheet' = res.sheet
       /\ UNCHANGED <<sheetName, titles, flights>>

ReqAdminList ==
  /\ last.op = "idle"
  /\ \E token \in {"none", "invalid", "valid"} :
    /\ last' = Call("GET /api/admin/trackings", Undef, Undef, token, sheet,
                    AdminList(sheet, token))
    /\ UNCHANGED <<sheet, sheetName, titles, flights>>

ReqAdminFetch ==
  /\ last.op = "idle"
  /\ \E c \in AdminCalls :
    /\ last' = Call("GET /api/admin/track/:id", c[2], Undef, c[1], sheet,
                    AdminFetch(sheet, c[1], c[2]))
    /\ UNCHANGED <<sheet, sheetName, titles, flights>>

ReqAdminDelete ==
  /\ last.op = "idle"
  /\ \E c \in AdminCalls : \E res \in {AdminDelete(sheet, c[1], c[2])} :
       /\ last' = Call("DELETE /api/admin/track/:id", c[2], Undef, c[1], sheet, res)
       /\ sheet' = res.sheet
       /\ UNCHANGED <<sheetName, titles, flights>>

\* the answer is delivered to the caller
Reply ==
  /\ last.op # "idle"
  /\ last' = Idle(sheet)
  /\ UNCHANGED <<sheet, sheetName, titles, flights>>

Next ==
  \/ Reply
  \/ CallGetRow
  \/ CallUpdateRow
  \/ CallDeleteRow
  \/ ReqGetTrack
  \/ ReqPostTrack
  \/ ReqAdminList
  \/ ReqAdminFetch
  \/ ReqAdminDelete

Spec == Init /\ [][Next]_vars

-----------------------------------------------------------------------------
(* The write functions of sheets.js called on their own, with records of   *)
(* every shape.                                                            *)

InitWrite ==
  /\ sheet \in WriteSheets
  /\ titles = << <<"D">> >>
  /\ flights = <<>>
  /\ sheetName = titles[1]
  /\ last = Idle(sheet)

WriteCreateRow ==
  /\ last.op = "idle"
  /\ \E rowData \in RowDatas : \E res \in {createRow(sheet, rowData)} :
       /\ Fits(res.sheet)
       /\ last' = Call("createRow", Undef, rowData, "none", sheet, res)
       /\ sheet' = res.sheet
       /\ UNCHANGED <<sheetName, titles, flights>>

WriteUpdateRow ==
  /\ last.op = "idle"
  /\ \E c \in WideUpdateCalls : \E res \in {updateRow(sheet, c[1], c[2])} :
       /\ last' = Call("updateRow", c[1], c[2], "none", sheet, res)
       /\ sheet' = res.sheet
       /\ UNCHANGED <<sheetName, titles, flights>>

NextWrite ==
  \/ Reply
  \/ WriteCreateRow
  \/ WriteUpdateRow

SpecWrite == InitWrite /\ [][NextWrite]_vars

-----------------------------------------------------------------------------
(* The history codec called on its own: the functions are pure, the sheet  *)
(* plays no part.                                                          *)

InitCodec ==
  /\ sheet = <<HeaderStd>>
  /\ titles = << <<"D">> >>
  /\ flights = <<>>
  /\ sheetName = titles[1]
  /\ last = Idle(sheet)

CallParseHistory ==
  /\ last.op = "idle"
  /\ \E h \in CodecInputs :
       last' = Call("parseHistory", Undef, h, "none", sheet, parseHistory(h))
  /\ UNCHANGED <<sheet, sheetName, titles, flights>>

CallNormalizeHistory ==
  /\ last.op = "idle"
  /\ \E h \in CodecInputs :
       last' = Call("normalizeHistoryForStorage", Undef, h, "none", sheet,
                    Str(normalizeHistoryForStorage(h)))
  /\ UNCHANGED <<sheet, sheetName, titles, flights>>

\* a history array is stored and read back
CallRoundTrip ==
  /\ last.op = "idle"
  /\ \E h \in WellFormedHistories :
       last' = Call("parseHistory(normalizeHistoryForStorage)", Undef, h, "none", sheet,
                    parseHistory(Str(normalizeHistoryForStorage(h))))
  /\ UNCHANGED <<sheet, sheetName, titles, flights>>

NextCodec ==
  \/ Reply
  \/ CallParseHistory
  \/ CallNormalizeHistory
  \/ CallRoundTrip

SpecCodec == InitCodec /\ [][NextCodec]_vars

-----------------------------------------------------------------------------
(* The cached tab name.  The tabs of the spreadsheet are renamed by its    *)
(* users while the service runs.  A read of a tab that does not exist      *)
(* fails, and any read may fail for a reason of its own (network, quota,   *)
(* an empty first row).  A call of readHeader ends in one of three ways:   *)
(* "primary" (the read of row 1 answers: one read), "fallback" (it fails   *)
(* and the read of the whole tab answers: two reads) or "fail" (both fail  *)
(* and the error is thrown: two reads).  An operation on the tab answers   *)
(* [kind, sheetName, from, reads, lists]: whether it returned or threw,    *)
(* the cached name after and before it, and how many values.get and        *)
(* spreadsheets.get calls it made for the header.                          *)

\* the most tabs the spreadsheet has
MaxTabs == 2

TabNames == {<<"D">>, <<"d">>, <<"L">>, <<"M">>}

\* resolveSheetTab that takes the first tab without looking for the title
resolveSheetTabFirst(name, ts, h, lst) ==
  LET exists == name # <<>> /\ \E i \in DOMAIN ts : ts[i] = name
      reads == IF name = <<>> THEN 0 ELSE IF exists /\ h = "primary" THEN 1 ELSE 2
  IN IF exists /\ h # "fail"
       THEN [kind |-> "ok", sheetName |-> name, reads |-> reads, lists |-> 0]
     ELSE IF ~lst \/ ts = <<>>
       THEN [kind |-> "throw", sheetName |-> name, reads |-> reads, lists |-> 1]
     ELSE [kind |-> "ok", sheetName |-> ts[1], reads |-> reads, lists |-> 1]

\* resolveSheetTab with sheetName = name (<<>> for null) on the tabs ts; h is
\* how readHeader(sheetName) ends, lst whether listSheetTitles answers
resolveSheetTab(name, ts, h, lst) ==
  LET exists == name # <<>> /\ \E i \in DOMAIN ts : ts[i] = name
      reads == IF name = <<>> THEN 0 ELSE IF exists /\ h = "primary" THEN 1 ELSE 2
      \* titles.find((t) => t.toLowerCase() === lower)
      match == {i \in DOMAIN ts : toLowerCase(ts[i]) = toLowerCase(name)}
  IN IF exists /\ h # "fail"
       THEN [kind |-> "ok", sheetName |-> name, reads |-> reads, lists |-> 0]
     ELSE IF ~lst \/ ts = <<>>
       THEN [kind |-> "throw", sheetName |-> name, reads |-> reads, lists |-> 1]
     ELSE IF name # <<>> /\ match # {}
       THEN [kind |-> "ok", sheetName |-> ts[Min(match)], reads |-> reads, lists |-> 1]
     ELSE [kind |-> "ok", sheetName |-> ts[1], reads |-> reads, lists |-> 1]

\* getHeaders that lets the failure of its first readHeader reach the caller
getHeadersOfTabOnce(name, ts, h1, h2, lst, h3) ==
  IF (\E i \in DOMAIN ts : ts[i] = name) /\ h1 # "fail"
    THEN [kind |-> "ok", sheetName |-> name, from |-> name,
          reads |-> IF h1 = "primary" THEN 1 ELSE 2, lists |-> 0]
    ELSE [kind |-> "throw", sheetName |-> name, from |-> name, reads |-> 2, lists |-> 0]

\* getHeaders with sheetName = name, which is not null once initSheets has
\* returned: h1 is how the first readHeader ends, h2 and lst are passed to
\* resolveSheetTab, h3 is how the readHeader after it ends
getHeadersOfTab(name, ts, h1, h2, lst, h3) ==
  LET exists(n) == \E i \in DOMAIN ts : ts[i] = n
      cost(h, n) == IF exists(n) /\ h = "primary" THEN 1 ELSE 2
  IN IF exists(name) /\ h1 # "fail"
       THEN [kind |-> "ok", sheetName |-> name, from |-> name,
             reads |-> cost(h1, name), lists |-> 0]
     ELSE Bind(resolveSheetTab(name, ts, h2, lst), LAMBDA r :
       IF r.kind = "throw"
         THEN [kind |-> "throw", sheetName |-> r.sheetName, from |-> name,
               reads |-> 2 + r.reads, lists |-> r.lists]
         ELSE [kind |-> IF exists(r.sheetName) /\ h3 # "fail" THEN "ok" ELSE "throw",
               sheetName |-> r.sheetName, from |-> name,
               reads |-> 2 + r.reads + cost(h3, r.sheetName), lists |-> r.lists])

\* initSheets has returned: the override (<<>> when none is given) was resolved
InitTab ==
  /\ sheet = <<HeaderStd>>
  /\ last = Idle(sheet)
  /\ flights = <<>>
  /\ titles \in {ts \in SeqsUpTo(TabNames, MaxTabs) :
                   /\ ts # <<>>
                   /\ \A i, j \in DOMAIN ts :
                        toLowerCase(ts[i]) = toLowerCase(ts[j]) => i = j}
  /\ \E override \in TabNames \cup {<<>>}, h \in {"primary", "fallback", "fail"} :
       \E r \in {resolveSheetTab(override, titles, h, TRUE)} :
         /\ r.kind = "ok"
         /\ sheetName = r.sheetName

\* getHeaders, and createRow and updateRow, which call it; updateRow looks the
\* row up first (one more read) and throws when that read fails or finds nothing
TabFetchesHeaders(op) ==
  /\ last.op = "idle"
  /\ \E h1, h2, h3 \in {"primary", "fallback", "fail"}, lst \in BOOLEAN,
        found \in (IF op = "updateRow" THEN BOOLEAN ELSE {TRUE}) :
       \E r \in {getHeadersOfTab(sheetName, titles, h1, h2, lst, h3)} :
         \E res \in {IF op # "updateRow" THEN r
                      ELSE IF found THEN [r EXCEPT !.reads = @ + 1]
                      ELSE [kind |-> "throw", sheetName |-> sheetName, from |-> sheetName,
                            reads |-> 1, lists |-> 0]} :
           /\ last' = Call(op, Undef, Undef, "none", sheet, res)
           /\ sheetName' = res.sheetName
  /\ UNCHANGED <<sheet, titles, flights>>

\* getAllRows, getRowByTrackingId and deleteRow: one read of the cached tab, no
\* resolution because sheetName is not null; deleteRow then looks the tab up
\* in the metadata
TabKeeps(op) ==
  /\ last.op = "idle"
  /\ \E answers \in BOOLEAN :
       \E ok \in {answers /\ \E i \in DOMAIN titles : titles[i] = sheetName} :
         last' = Call(op, Undef, Undef, "none", sheet,
                      [kind |-> IF ok THEN "ok" ELSE "throw",
                       sheetName |-> sheetName, from |-> sheetName, reads |-> 1,
                       lists |-> IF ok /\ op = "deleteRow" THEN 1 ELSE 0])
  /\ UNCHANGED <<sheet, sheetName, titles, flights>>

\* a user of the spreadsheet renames a tab
UserRenamesTab ==
  /\ last.op = "idle"
  /\ \E i \in DOMAIN titles, n \in TabNames :
       /\ n # titles[i]
       /\ \A j \in DOMAIN titles \ {i} : toLowerCase(titles[j]) # toLowerCase(n)
       /\ titles' = [titles EXCEPT ![i] = n]
  /\ UNCHANGED <<sheet, last, sheetName, flights>>

NextTab ==
  \/ Reply
  \/ UserRenamesTab
  \/ \E op \in {"getHeaders", "createRow", "updateRow"} : TabFetchesHeaders(op)
  \/ \E op \in {"getAllRows", "getRowByTrackingId", "deleteRow"} : TabKeeps(op)

SpecTab == InitTab /\ [][NextTab]_vars

-----------------------------------------------------------------------------
(* Requests served concurrently.  A handler runs until it awaits the store, *)
(* and the store serves one call at a time, so a step is one store call    *)
(* with the code up to the next one.  getHeaders reads row 1, which no     *)
(* operation writes, and deleteRow's spreadsheets.get reads no cell: each  *)
(* is taken together with the write that follows it.  A flight is a        *)
(* request with the await it stands at (pc) and the row position its       *)
(* lookup returned; last holds the latest write: the request, the grid the *)
(* write found (pre) and what the request answers.                         *)

\* the most requests served at the same time
MaxFlights == 2

\* the grids the concurrent requests start on: rows with distinct identifiers
InitRace ==
  /\ sheet \in {<<HeaderStd>> \o
                  [i \in 1..Len(ids) |->
                     SeedRow(HeaderStd, [id |-> ids[i], status |-> <<"s">>, history |-> sBrackets])] :
                ids \in {q \in SeqsUpTo({idA, idB, idAbsent}, MaxRows + 1) :
                           \A i, j \in DOMAIN q : q[i] = q[j] => i = j}}
  /\ titles = << <<"D">> >>
  /\ sheetName = titles[1]
  /\ flights = <<>>
  /\ last = Idle(sheet)

\* a request arrives: updateRow and deleteRow start with their lookup, createRow
\* with its append, POST /api/track with the history normalization and the
\* handler's own lookup; ops are the operations that are requested
RaceBegin(ops) ==
  /\ Len(flights) < MaxFlights
  /\ \E c \in { <<"updateRow", Str(idA), Body(<< <<sTrackingId, Str(idA)>>, <<sStatus, Str(<<"u">>)>> >>)>>,
                 <<"updateRow", Str(idB), Body(<< <<sTrackingId, Str(idB)>>, <<sStatus, Str(<<"v">>)>> >>)>>,
                 <<"deleteRow", Str(idA), Undef>>,
                 <<"deleteRow", Str(idB), Undef>>,
                 <<"createRow", Str(idAbsent), Body(<< <<sTrackingId, Str(idAbsent)>> >>)>>,
                 <<"POST /api/track", Str(idA), Body(<< <<sTrackingId, Str(idA)>>, <<sStatus, Str(<<"p">>)>> >>)>>,
                 <<"POST /api/track", Str(idAbsent), Body(<< <<sTrackingId, Str(idAbsent)>> >>)>> } :
       /\ c[1] \in ops
       /\ flights' = Append(flights,
         [op |-> c[1], id |-> c[2],
          body |-> IF c[1] = "POST /api/track"
                     THEN Obj(ObjPut(c[3].v, sHistory, IncomingHistory(Get(c[3], sHistory))))
                     ELSE c[3],
          pc |-> IF c[1] = "createRow" THEN "append"
                 ELSE IF c[1] = "POST /api/track" THEN "existing" ELSE "lookup",
          rowIndex |-> 0])
  /\ UNCHANGED <<sheet, last, sheetName, titles>>

\* flight i gets the answer of a getRowByTrackingId: the handler's lookup of
\* POST /api/track (pc "existing") chooses between updateRow and createRow;
\* the lookup of updateRow and deleteRow (pc "lookup") gives the row position
\* or ends the request with 'Tracking ID not found'
RaceLookup(i) ==
  /\ flights[i].pc \in {"existing", "lookup"}
  /\ \E found \in {getRowByTrackingId(sheet, flights[i].id)} :
       flights' =
         IF found.kind = "found" /\ flights[i].pc = "existing"
           THEN [flights EXCEPT ![i].pc = "lookup"]
         ELSE IF found.kind = "found"
           THEN [flights EXCEPT ![i].pc = "write", ![i].rowIndex = found.rowIndex]
         ELSE IF found.kind = "null" /\ flights[i].pc = "existing"
           THEN [flights EXCEPT ![i].pc = "append"]
         ELSE SubSeq(flights, 1, i - 1) \o SubSeq(flights, i + 1, Len(flights))
  /\ UNCHANGED <<sheet, last, sheetName, titles>>

\* flight i issues its write: values.append, values.update of the row its
\* lookup returned, or deleteDimension of that row; the request is answered
RaceWrite(i) ==
  /\ flights[i].pc \in {"append", "write"}
  /\ \E f \in {flights[i]}, headers \in {getHeaders(sheet)} :
       \E payload \in {IF f.op = "deleteRow" THEN <<>> ELSE BuildPayload(headers, f.body)} :
         \E op \in {[kind |-> "ok", err |-> "",
                      sheet |-> IF f.pc = "append" THEN AppendRow(sheet, payload)
                                ELSE IF f.op = "deleteRow"
                                  THEN DeleteDimension(sheet, f.rowIndex - 1, f.rowIndex)
                                ELSE UpdateRange(sheet, f.rowIndex, payload),
                      out |-> IF f.op = "deleteRow" THEN Bool(TRUE) ELSE RecordOf(headers, payload),
                      payload |-> payload,
                      rowIndex |-> IF f.pc = "append" THEN Len(sheet) + 1 ELSE f.rowIndex]} :
           /\ Fits(op.sheet)
           /\ sheet' = op.sheet
           /\ last' = Call(f.op, f.id, f.body, "none", sheet,
                           IF f.op = "POST /api/track"
                             THEN WriteResponse(op, IF f.pc = "append" THEN 201 ELSE 200,
                                                f.pc = "append")
                             ELSE op)
  /\ flights' = SubSeq(flights, 1, i - 1) \o SubSeq(flights, i + 1, Len(flights))
  /\ UNCHANGED <<sheetName, titles>>

NextRace ==
  \/ RaceBegin({"updateRow", "deleteRow", "createRow", "POST /api/track"})
  \/ \E i \in DOMAIN flights : RaceLookup(i)
  \/ \E i \in DOMAIN flights : RaceWrite(i)

SpecRace == InitRace /\ [][NextRace]_vars

\* the service when every request is a POST /api/track
NextUpsert ==
  \/ RaceBegin({"POST /api/track"})
  \/ \E i \in DOMAIN flights : RaceLookup(i)
  \/ \E i \in DOMAIN flights : RaceWrite(i)

SpecUpsert == InitRace /\ [][NextUpsert]_vars

-----------------------------------------------------------------------------
(* The claims.  A claim about a call is stated over the state right after  *)
(* the call: last holds the call, the grid before it (last.pre) and its    *)
(* answer (last.res), sheet is the grid after it.  Rows are numbered as in *)
(* the sheet: row 1 is the header, row 2 the first data row, so the data   *)
(* row at 0-based index i is row i + 2.                                    *)

\* the header row has a column named 'trackingId' after trimming
HasIdColumn(sh) == \E c \in 1..Len(sh[1]) : trim(sh[1][c]) = sTrackingId

\* the first such column
IdColumn(sh) ==
  CHOOSE c \in 1..Len(sh[1]) :
    trim(sh[1][c]) = sTrackingId /\ \A d \in 1..(c - 1) : trim(sh[1][d]) # sTrackingId

\* the identifier cell of row r, '' when the row is shorter
IdCell(sh, r) == IF IdColumn(sh) <= Len(sh[r]) THEN sh[r][IdColumn(sh)] ELSE <<>>

\* the normalization the specification describes: non-breaking spaces become
\* spaces, then trim, then uppercase
Normalized(s) == toUpperCase(trim(ReplaceNbsp(s)))

\* the data rows whose identifier equals the needle when both are normalized
\* the same way
SameAfterNormalizing(sh, id) ==
  {r \in 2..Len(sh) : Normalized(IdCell(sh, r)) = Normalized(String(id))}

\* the data rows the lookup accepts: the needle is not empty and the loop's test
\* cell === needle holds
Accepted(sh, id) ==
  IF Truthy(id) THEN {r \in 2..Len(sh) : CellKey(IdCell(sh, r)) = Needle(id)} ELSE {}

\* the first of a set of rows
First(rows, r) == r \in rows /\ \A q \in rows : r <= q

\* the record of row r: one property per header column, '' for a missing cell,
\* the history cell decoded
RecordAt(sh, r) == MapRow(TrimHeaders(sh[1]), RowValues(sh[r]))

\* the text written for field h of a record: '' when absent or null
FieldText(rowData, h) ==
  IF Get(rowData, h).k \in {"undefined", "null"} THEN <<>> ELSE String(Get(rowData, h))

\* row is built from rowData for the header of sh: one cell per header column,
\* the field's text in every column but history, the JSON of an array in history
BuiltFrom(row, sh, rowData) ==
  /\ Len(row) = Len(sh[1])
  /\ \A c \in 1..Len(sh[1]) :
       IF trim(sh[1][c]) = sHistory
         THEN JSONparse(row[c]).ok /\ JSONparse(row[c]).val.k = "arr"
         ELSE row[c] = FieldText(rowData, trim(sh[1][c]))

ConfigError == "trackingId column not found in headers"
MissError == "Tracking ID not found"

\* C1: storing a sequence of well-formed history entries and reading it back
\* gives the same sequence, the empty sequence included
C1_RoundTrip ==
  last.op = "parseHistory(normalizeHistoryForStorage)" => last.res = last.body

C1_Witness ==
  /\ last.op = "parseHistory(normalizeHistoryForStorage)"
  /\ Len(last.body.v) = 2
  /\ last.body.v[1] # last.body.v[2]
  /\ Get(last.body.v[1], sCompleted) = Bool(TRUE)
  /\ Get(last.body.v[2], sMessage) = Str(<<"a", "\"", "\\">>)
  /\ last.res = last.body

C3_SymmetricNormalization ==
  ( /\ last.op = "getRowByTrackingId"
    /\ Truthy(last.id)
    /\ HasIdColumn(last.pre)
    /\ SameAfterNormalizing(last.pre, last.id) # {} ) => last.res.kind = "found"

\* C4: when several rows are accepted the lookup returns the first of them, its
\* position in the sheet (data index i reported as i + 2) and the record of
\* that same row
C4_FirstMatch ==
  ( /\ last.op = "getRowByTrackingId"
    /\ HasIdColumn(last.pre)
    /\ Accepted(last.pre, last.id) # {} ) =>
      \E r \in Accepted(last.pre, last.id) :
        /\ First(Accepted(last.pre, last.id), r)
        /\ last.res.kind = "found"
        /\ last.res.rowIndex = (r - 2) + 2
        /\ last.res.data = RecordAt(last.pre, r)

C4_Witness ==
  /\ last.op = "getRowByTrackingId"
  /\ HasIdColumn(last.pre)
  /\ Accepted(last.pre, last.id) = {2, 3}
  /\ RecordAt(last.pre, 2) # RecordAt(last.pre, 3)
  /\ last.res.rowIndex = 2
  /\ last.res.data = RecordAt(last.pre, 2)

\* C5 as the specification states it: a header row without the identifier
\* column is answered with the configuration error for every needle and every
\* list of data rows
C5_AlwaysConfigError ==
  (last.op = "getRowByTrackingId" /\ ~HasIdColumn(last.pre)) =>
    last.res.kind = "throw" /\ last.res.err = ConfigError

\* C5 amended: a header row without the identifier column is answered with the
\* configuration error when the needle is not empty and the sheet has a data
\* row; an empty needle or a sheet without data rows is answered with null
\* before the header is looked at
C5_ConfigError ==
  (last.op = "getRowByTrackingId" /\ ~HasIdColumn(last.pre)) =>
    IF Truthy(last.id) /\ Len(last.pre) >= 2
      THEN last.res.kind = "throw" /\ last.res.err = ConfigError
      ELSE last.res.kind = "null" /\ last.res.err = ""

C5_Witness ==
  /\ last.op = "getRowByTrackingId"
  /\ ~HasIdColumn(last.pre)
  /\ Truthy(last.id)
  /\ Len(last.pre) = 3
  /\ last.res.kind = "throw"
  /\ last.res.err = ConfigError

\* C6: with the identifier column present and no row accepted, the lookup
\* returns null and raises nothing, and the public read and the admin fetch
\* that called it answer 404
C6_NotFound ==
  /\ ( /\ last.op = "getRowByTrackingId"
       /\ HasIdColumn(last.pre)
       /\ Accepted(last.pre, last.id) = {} ) =>
         last.res.kind = "null" /\ last.res.err = ""
  /\ ( /\ last.op = "GET /api/track"
       /\ Truthy(last.id)
       /\ HasIdColumn(last.pre)
       /\ Accepted(last.pre, last.id) = {} ) =>
         last.res.status = 404 /\ last.res.err = MissError
  /\ ( /\ last.op = "GET /api/admin/track/:id"
       /\ last.token = "valid"
       /\ HasIdColumn(last.pre)
       /\ Accepted(last.pre, last.id) = {} ) =>
         last.res.status = 404 /\ last.res.err = MissError

C6_Witness ==
  /\ last.op = "GET /api/track"
  /\ Truthy(last.id)
  /\ HasIdColumn(last.pre)
  /\ Len(last.pre) = 3
  /\ Accepted(last.pre, last.id) = {}
  /\ last.res.status = 404

\* a call of deleteRow, made directly or by the admin delete route
DeleteCalled ==
  \/ last.op = "deleteRow"
  \/ last.op = "DELETE /api/admin/track/:id" /\ last.token = "valid"

\* C7: deleteRow removes exactly the first accepted row: the rows before it
\* (the header among them) keep their position and content, the rows after it
\* move up by one with their content
C7_DeleteFirst ==
  (DeleteCalled /\ HasIdColumn(last.pre) /\ Accepted(last.pre, last.id) # {}) =>
    \E r \in Accepted(last.pre, last.id) :
      /\ First(Accepted(last.pre, last.id), r)
      /\ Len(sheet) = Len(last.pre) - 1
      /\ \A i \in 1..Len(sheet) :
           sheet[i] = IF i < r THEN last.pre[i] ELSE last.pre[i + 1]

C7_Witness ==
  /\ last.op = "deleteRow"
  /\ HasIdColumn(last.pre)
  /\ Accepted(last.pre, last.id) = {2, 3}
  /\ last.pre[2] # last.pre[3]
  /\ sheet = <<last.pre[1], last.pre[3]>>

\* C8: updateRow and deleteRow called with an identifier no row is accepted for
\* fail with 'Tracking ID not found' and write nothing; a missing identifier
\* column fails with the other message; the admin delete route answers both
\* with 500 and the message, never with success
C8_ExplicitFailures ==
  /\ ( /\ last.op \in {"updateRow", "deleteRow"}
       /\ HasIdColumn(last.pre)
       /\ Accepted(last.pre, last.id) = {} ) =>
         last.res.kind = "throw" /\ last.res.err = MissError /\ sheet = last.pre
  /\ ( /\ last.op \in {"updateRow", "deleteRow"}
       /\ ~HasIdColumn(last.pre)
       /\ Truthy(last.id) /\ Len(last.pre) >= 2 ) =>
         last.res.kind = "throw" /\ last.res.err = ConfigError /\ sheet = last.pre
  /\ ( /\ last.op = "DELETE /api/admin/track/:id"
       /\ last.token = "valid"
       /\ HasIdColumn(last.pre)
       /\ Accepted(last.pre, last.id) = {} ) =>
         last.res.status = 500 /\ last.res.err = MissError /\ sheet = last.pre
  /\ ( /\ last.op = "DELETE /api/admin/track/:id"
       /\ last.token = "valid"
       /\ ~HasIdColumn(last.pre)
       /\ Len(last.pre) >= 2 ) =>
         last.res.status = 500 /\ last.res.err = ConfigError /\ sheet = last.pre

C8_Witness ==
  /\ last.op = "updateRow"
  /\ HasIdColumn(last.pre)
  /\ Len(last.pre) = 3
  /\ Truthy(last.id)
  /\ Accepted(last.pre, last.id) = {}
  /\ last.res.kind = "throw"
  /\ last.res.err = MissError
  /\ sheet = last.pre

\* a call of createRow or updateRow that wrote a row
WriteDone == last.op \in {"createRow", "updateRow"} /\ last.res.kind = "ok"

\* C9: the row createRow and updateRow write has one cell per header column, in
\* header order; a column other than history holds the field's text, '' when
\* the field is absent or null; nothing else is written
C9_PayloadPerHeader ==
  WriteDone =>
    /\ Len(sheet[last.res.rowIndex]) = Len(last.pre[1])
    /\ \A c \in 1..Len(last.pre[1]) :
         trim(last.pre[1][c]) # sHistory =>
           sheet[last.res.rowIndex][c] = FieldText(last.body, trim(last.pre[1][c]))
    /\ Len(sheet) = IF last.op = "createRow" THEN Len(last.pre) + 1 ELSE Len(last.pre)
    /\ \A i \in 1..Len(last.pre) : i # last.res.rowIndex => sheet[i] = last.pre[i]

C9_Witness ==
  /\ WriteDone
  /\ last.op = "createRow"
  /\ last.pre[1] = HeaderPadded
  /\ Get(last.body, sExtra) # Undef
  /\ Get(last.body, sStatus) = Undef
  /\ sheet[last.res.rowIndex] = <<sOneEntry, idB, <<>> >>

\* C10: the history cell createRow and updateRow write is the JSON text of an
\* array whatever the record's history is, and parseHistory decodes it to that
\* array
C10_HistoryCellIsArray ==
  WriteDone =>
    \A c \in 1..Len(last.pre[1]) :
      trim(last.pre[1][c]) = sHistory =>
        /\ JSONparse(sheet[last.res.rowIndex][c]).ok
        /\ JSONparse(sheet[last.res.rowIndex][c]).val.k = "arr"
        /\ JSONstringify(JSONparse(sheet[last.res.rowIndex][c]).val)
             = sheet[last.res.rowIndex][c]
        /\ parseHistory(Str(sheet[last.res.rowIndex][c]))
             = JSONparse(sheet[last.res.rowIndex][c]).val

C10_Witness ==
  /\ WriteDone
  /\ last.op = "updateRow"
  /\ Get(last.body, sHistory) = Str(sMalformed)
  /\ last.pre[1] = HeaderStd
  /\ parseHistory(Str(sheet[last.res.rowIndex][3])) = Arr(<<MessageEntry(sMalformed)>>)

\* the trimmed text starts with [ or {
LooksJson(trimmed) == startsWith(trimmed, "[") \/ startsWith(trimmed, "{")

\* neither the strict nor the forgiving attempt decodes the trimmed text
Undecodable(trimmed) ==
  /\ ~JSONparse(trimmed).ok
  /\ ~JSONparse(Unescaped(trimmed)).ok

\* C11: parseHistory answers a value of any shape with a sequence, and a text
\* that looks like JSON but decodes neither strictly nor after the forgiving
\* rewrite with the empty sequence
C11_NeverRaises ==
  last.op = "parseHistory" =>
    /\ last.res.k = "arr"
    /\ (/\ last.body.k = "str"
        /\ LooksJson(trim(last.body.v))
        /\ Undecodable(trim(last.body.v))) => last.res = Arr(<<>>)

C11_Witness ==
  /\ last.op = "parseHistory"
  /\ last.body = Str(<<"[", "1", ",", "]">>)
  /\ Undecodable(trim(last.body.v))
  /\ last.res = Arr(<<>>)

\* C12: a double-encoded history text is recovered: parseHistory of it is the
\* history array, and normalizeHistoryForStorage of it is the plain
\* serialization of that array
C12_DoubleEncodedRecovered ==
  \A h \in ShortHistories :
    last.body = Str(DoubleEncoded(JSONstringify(h))) =>
      /\ last.op = "parseHistory" => last.res = h
      /\ last.op = "normalizeHistoryForStorage" => last.res = Str(JSONstringify(h))

\* what the code answers instead: the double-encoded text as one message
C12_Witness ==
  /\ last.op = "parseHistory"
  /\ last.body = Str(DoubleEncoded(JSONstringify(Arr(<<>>))))
  /\ last.res = Arr(<<MessageEntry(<<"\"", "[", "]", "\"">>)>>)

\* C13: for a text, normalizeHistoryForStorage is the serialization of what
\* parseHistory makes of that text, so decoding the stored text gives what
\* decoding the text itself gives
C13_SameClassification ==
  (last.op = "normalizeHistoryForStorage" /\ last.body.k = "str") =>
    /\ last.res = Str(JSONstringify(parseHistory(last.body)))
    /\ parseHistory(last.res) = parseHistory(last.body)

\* what the code does with a text that looks like JSON and is not: it is stored
\* as a message although decoding it gives the empty sequence
C13_Witness ==
  /\ last.op = "normalizeHistoryForStorage"
  /\ last.body = Str(sMalformed)
  /\ parseHistory(last.body) = Arr(<<>>)
  /\ parseHistory(last.res) = Arr(<<MessageEntry(sMalformed)>>)

C15_BlankIsEmpty ==
  (last.op = "parseHistory" /\ last.body.k = "str" /\ trim(last.body.v) = <<>>) =>
    last.res = Arr(<<>>)

\* what the code answers to a blank text: one entry with an empty message
C15_Witness ==
  /\ last.op = "parseHistory"
  /\ last.body = Str(<<" ">>)
  /\ Len(last.res.v) = 1
  /\ Get(last.res.v[1], sMessage) = Str(<<>>)

\* C16: parseHistory answers undefined, null, the empty text and every object
\* that is no sequence with the empty sequence, and a sequence with that same
\* sequence
C16_EmptyAndPassThrough ==
  last.op = "parseHistory" =>
    /\ (last.body.k \in {"undefined", "null", "obj"} \/ last.body = Str(<<>>)) =>
         last.res = Arr(<<>>)
    /\ last.body.k = "arr" => last.res = last.body

C16_Witness ==
  /\ last.op = "parseHistory"
  /\ last.body = Obj(<< <<sMessage, Str(<<"a">>)>> >>)
  /\ last.res = Arr(<<>>)

\* C17: normalizeHistoryForStorage answers every value with a text, and with
\* the text [] when the value is undefined, null, the empty sequence, a value
\* that is neither a sequence nor a text, or a sequence that cannot be
\* serialized
C17_EncodeDefaults ==
  last.op = "normalizeHistoryForStorage" =>
    /\ last.res.k = "str"
    /\ (\/ last.body.k \in {"undefined", "null", "obj", "num", "bool", "bigint"}
        \/ last.body = Arr(<<>>)
        \/ (last.body.k = "arr" /\ ~Serializable(last.body))) =>
         last.res = Str(<<"[", "]">>)

C17_Witness ==
  /\ last.op = "normalizeHistoryForStorage"
  /\ last.body.k = "arr"
  /\ Len(last.body.v) = 1
  /\ last.body.v[1].k = "obj"
  /\ ~Serializable(last.body)
  /\ last.res = Str(<<"[", "]">>)

\* the cell of row r in column c, the empty text when the row ends before c
PaddedCell(sh, r, c) == IF c <= Len(sh[r]) THEN sh[r][c] ELSE <<>>

\* the record of row r: for each header column, in order, the trimmed header
\* name with the raw cell, or with the decoded cell in the column named history
MappedRecord(sh, r) ==
  Obj([c \in 1..Len(sh[1]) |->
        <<trim(sh[1][c]),
          IF trim(sh[1][c]) = sHistory
            THEN parseHistory(Str(PaddedCell(sh, r, c)))
            ELSE Str(PaddedCell(sh, r, c))>>])

AdminOps ==
  {"GET /api/admin/trackings", "GET /api/admin/track/:id", "DELETE /api/admin/track/:id"}

\* what the admin handler of the request in last answers on the grid sh
AdminAnswerOn(sh) ==
  IF last.op = "GET /api/admin/trackings" THEN AdminList(sh, last.token)
  ELSE IF last.op = "GET /api/admin/track/:id" THEN AdminFetch(sh, last.token, last.id)
  ELSE AdminDelete(sh, last.token, last.id)

\* C19: an admin request without a token is answered 401 and one whose token
\* does not verify 403; the answer carries no data and is the same whatever the
\* sheet holds, and the sheet is as it was: nothing is read, written or removed
C19_AdminNeedsToken ==
  (last.op \in AdminOps /\ last.token # "valid") =>
    /\ last.res.status = (IF last.token = "none" THEN 401 ELSE 403)
    /\ last.res.err =
         (IF last.token = "none" THEN "Access token required" ELSE "Invalid or expired token")
    /\ last.res.out = Undef
    /\ sheet = last.pre
    /\ \A sh \in SeedSheets :
         /\ AdminAnswerOn(sh).status = last.res.status
         /\ AdminAnswerOn(sh).err = last.res.err
         /\ AdminAnswerOn(sh).out = last.res.out
         /\ AdminAnswerOn(sh).sheet = sh

C19_Witness ==
  /\ last.op = "DELETE /api/admin/track/:id"
  /\ last.token = "invalid"
  /\ HasIdColumn(last.pre)
  /\ Accepted(last.pre, last.id) # {}
  /\ last.res.status = 403
  /\ sheet = last.pre

\* C20 as it is claimed: once initSheets has resolved the tab name, no
\* operation changes it, one whose store read fails included
C20_TabNeverChanges == [][sheetName' = sheetName]_vars

\* the titles that equal the name when case is ignored
SameIgnoringCase(name, ts) == {i \in DOMAIN ts : toLowerCase(ts[i]) = toLowerCase(name)}

\* C20: the cached tab name is changed only by a header fetch (getHeaders, on
\* its own or inside createRow or updateRow) that fails to read the cached tab
\* twice, primary and fallback read each time, and then lists the tabs, and
\* only when no tab carries the cached title any more; the name becomes the
\* first title that equals it when case is ignored, or else the title of the
\* first tab.  getAllRows, getRowByTrackingId and deleteRow never change it
C20_TabKept ==
  [][sheetName' # sheetName =>
       /\ last'.op \in {"getHeaders", "createRow", "updateRow"}
       /\ last'.res.from = sheetName
       /\ last'.res.reads >= 4
       /\ last'.res.lists = 1
       /\ \A i \in DOMAIN titles : titles[i] # sheetName
       /\ sheetName' = (IF SameIgnoringCase(sheetName, titles) # {}
                          THEN titles[Min(SameIgnoringCase(sheetName, titles))]
                          ELSE titles[1])]_vars

\* createRow has moved the service to the first tab after its own tab was renamed
C20_Witness ==
  /\ last.op = "createRow"
  /\ last.res.kind = "ok"
  /\ last.res.from # sheetName
  /\ SameIgnoringCase(last.res.from, titles) = {}
  /\ Len(titles) = 2
  /\ sheetName = titles[1]

\* C21 as it is claimed: one call of getHeaders reads the store at most twice,
\* and when both reads fail the failure reaches the caller with no further read
C21_AtMostTwoReads ==
  last.op = "getHeaders" =>
    /\ last.res.reads <= 2
    /\ last.res.lists = 0

\* C21: readHeader reads the store at most twice (row 1, then the whole tab),
\* and a call of getHeaders whose first readHeader succeeds makes no other
\* store call.  When that readHeader fails, getHeaders does not give up: it
\* resolves the tab again (one more readHeader of the cached tab and, when
\* that fails too, one listing of the tabs) and calls readHeader once more;
\* so it makes at most six reads and one listing, the tabs are listed only
\* after four failed reads, and the failure reaches the caller only after at
\* least four reads
C21_ReadsOfHeaderFetch ==
  last.op = "getHeaders" =>
    /\ last.res.reads \in 1..6
    /\ last.res.lists \in 0..1
    /\ last.res.reads <= 2 => last.res.kind = "ok" /\ last.res.lists = 0
    /\ last.res.lists = 1 => last.res.reads >= 4
    /\ last.res.kind = "throw" => last.res.reads >= 4

\* getHeaders has failed after six reads and a listing of the tabs
C21_Witness ==
  /\ last.op = "getHeaders"
  /\ last.res.kind = "throw"
  /\ last.res.reads = 6
  /\ last.res.lists = 1

\* C22 as it is claimed: GET /api/track for an identifier that matches a row
\* answers, whatever the header names and the cells, with the normalized
\* record, whose history is an array in which every element is an object
C22_ConsistentShape ==
  ( /\ last.op = "GET /api/track"
    /\ HasIdColumn(last.pre)
    /\ Accepted(last.pre, last.id) # {} )
  => /\ last.res.status = 200
     /\ last.res.out.k = "obj"
     /\ Get(last.res.out, sHistory).k = "arr"
     /\ \A i \in 1..Len(Get(last.res.out, sHistory).v) :
          Get(last.res.out, sHistory).v[i].k \in {"obj", "arr"}

\* the history column is named 'History', the cell of the located row holds
\* the JSON text {} and GET /api/track answers 500
C22_Witness ==
  /\ last.op = "GET /api/track"
  /\ last.pre[1] = HeaderVariant
  /\ Accepted(last.pre, last.id) # {}
  /\ \E r \in Accepted(last.pre, last.id) :
       /\ First(Accepted(last.pre, last.id), r)
       /\ Len(last.pre[r]) = 3
       /\ last.pre[r][3] = <<"{", "}">>
  /\ last.res.status = 500

\* C23 as it is claimed: whatever requests run at the same time, the row that
\* updateRow(X, data) overwrites is, when the write is issued, a row whose
\* identifier matches X
C23_UpdateHitsItsRow ==
  (last.op = "updateRow" \/ (last.op = "POST /api/track" /\ last.res.status = 200))
  => last.res.rowIndex \in Accepted(last.pre, last.id)

\* updateRow has overwritten the record of another identifier: a deleteRow
\* between its lookup and its write moved that record to the position found
C23_Witness ==
  /\ last.op = "updateRow"
  /\ last.res.rowIndex \in 2..Len(last.pre)
  /\ IdCell(last.pre, last.res.rowIndex) # <<>>
  /\ CellKey(IdCell(last.pre, last.res.rowIndex)) # Needle(last.id)
  /\ Accepted(last.pre, last.id) # {}
  /\ sheet[last.res.rowIndex] = last.res.payload

\* C24 as it is claimed: whatever other deleteRow requests run at the same
\* time, the row that deleteRow(X) removes is a row whose identifier matches X
C24_DeleteHitsItsRow ==
  last.op = "deleteRow" => last.res.rowIndex \in Accepted(last.pre, last.id)

\* deleteRow has removed the record of another identifier: another deleteRow
\* between its lookup and its write moved that record to the position found
C24_Witness ==
  /\ last.op = "deleteRow"
  /\ last.res.rowIndex \in 2..Len(last.pre)
  /\ IdCell(last.pre, last.res.rowIndex) # <<>>
  /\ CellKey(IdCell(last.pre, last.res.rowIndex)) # Needle(last.id)
  /\ Accepted(last.pre, last.id) # {}
  /\ Len(sheet) = Len(last.pre) - 1

\* C25 as it is claimed: the sheet starts with at most one data row per
\* normalized identifier, and after any sequence and interleaving of
\* POST /api/track requests it still has at most one
C25_UniqueIdentifiers ==
  \A r, q \in 2..Len(sheet) :
    Normalized(IdCell(sheet, r)) = Normalized(IdCell(sheet, q)) => r = q

\* a POST /api/track has appended a row for an identifier that another POST
\* appended after the first one's lookup: the sheet holds the identifier twice
C25_Witness ==
  /\ last.op = "POST /api/track"
  /\ last.res.status = 201
  /\ Accepted(last.pre, last.id) # {}
  /\ \A r, q \in 2..Len(last.pre) :
       Normalized(IdCell(last.pre, r)) = Normalized(IdCell(last.pre, q)) => r = q
  /\ \E r \in 2..(Len(sheet) - 1) :
       Normalized(IdCell(sheet, r)) = Normalized(IdCell(sheet, Len(sheet)))

\* C26 as it is claimed: with no concurrent request, after POST /api/track has
\* succeeded for trackingId X, created or updated, getRowByTrackingId(X)
\* finds a row and returns the record the upsert returned, column by column,
\* the decoded history included
C26_ReadAfterWrite ==
  (last.op = "POST /api/track" /\ last.res.status \in {200, 201})
  => /\ getRowByTrackingId(sheet, last.id).kind = "found"
     /\ getRowByTrackingId(sheet, last.id).data = Get(last.res.out, sData)

\* POST /api/track has created the row of an identifier with a non-breaking
\* space inside, and the lookup of that identifier finds no row
C26_Witness ==
  /\ last.op = "POST /api/track"
  /\ last.res.status = 201
  /\ last.id = Str(idInnerNbsp)
  /\ HasIdColumn(sheet)
  /\ IdCell(sheet, last.res.rowIndex) = idInnerNbsp
  /\ getRowByTrackingId(sheet, last.id).kind = "null"

\* C26 where the code provides it: the sheet has the identifier column and the
\* identifier has no non-breaking space inside
C26_ReadAfterWritePlain ==
  ( /\ last.op = "POST /api/track"
    /\ last.res.status \in {200, 201}
    /\ HasIdColumn(last.pre)
    /\ last.id # Str(idInnerNbsp) )
  => /\ getRowByTrackingId(sheet, last.id).kind = "found"
     /\ getRowByTrackingId(sheet, last.id).data = Get(last.res.out, sData)

=============================================================================
